---- MODULE Spec2Model ----
(***************************************************************************)
(* Model of travel_explore.py: the fetch -> rank -> format -> print        *)
(* pipeline of main(), and the pure functions sort_by_cheapest,            *)
(* build_flight_link and format_destination.                               *)
(*                                                                         *)
(* Three specifications share the variables:                               *)
(*   Spec        one run of main()                                         *)
(*   SpecRank    sort_by_cheapest applied to a bounded input list, and     *)
(*               then to its own output                                    *)
(*   SpecFormat  format_destination applied to one bounded record          *)
(***************************************************************************)
EXTENDS Integers, Sequences, FiniteSets, TLC

VARIABLES
    pc,                    \* position in main() / phase of a function run
    api_key,               \* os.environ.get("SEARCHAPI_API_KEY")
    limit,                 \* args.limit
    requests,              \* number of requests.get calls issued
    transport,             \* "none" | "ok" | "failed": outcome of requests.get
    status,                \* response.status_code (0 before a response)
    response,              \* main: the decoded body, response.json()
    exc,                   \* the exception propagating to main's handlers
    destinations,          \* main: destinations / sort_by_cheapest: its argument
    sorted_destinations,   \* main: sorted_destinations / the function's result
    resorted,              \* SpecRank: sort_by_cheapest(sorted_destinations)
    display_destinations,  \* main: sorted_destinations[:args.limit]
    rank,                  \* main: the for loop's rank / format_destination's rank
    dest,                  \* SpecFormat: format_destination's dest
    block,                 \* SpecFormat: format_destination's result
    stdout,                \* what main printed on stdout, in order
    stderr,                \* what main printed on stderr, in order
    exit_status            \* the process's exit status (-1 while running)

vars == <<pc, api_key, limit, requests, transport, status, response, exc,
          destinations,
          sorted_destinations, resorted, display_destinations, rank, dest,
          block, stdout, stderr, exit_status>>

(***************************************************************************)
(* Bounds of the model.                                                    *)
(***************************************************************************)
MaxDests == 3     \* longest destination list
MaxPrice == 2     \* flight prices are 0..MaxPrice
MaxCost  == 1     \* nightly costs are 0..MaxCost
MaxLimit == 3     \* --limit ranges over -MaxLimit..MaxLimit

(***************************************************************************)
(* Python values. A dict entry is a value, or Missing when the key is not  *)
(* in the dict; JSON null decodes to PyNone.                               *)
(***************************************************************************)
PyNone   == [tag |-> "none", i |-> 0, s |-> ""]
PyInf    == [tag |-> "inf",  i |-> 0, s |-> ""]
Missing  == [tag |-> "missing", i |-> 0, s |-> ""]
PyInt(n) == [tag |-> "int", i |-> n, s |-> ""]
PyStr(x) == [tag |-> "str", i |-> 0, s |-> x]

\* dict.get(key, default): the default only when the key is not in the dict
DictGet(entry, default) == IF entry.tag = "missing" THEN default ELSE entry

\* truth value of a Python object: None, 0 and "" are false
Truthy(v) ==
    CASE v.tag = "none" -> FALSE
      [] v.tag = "int"  -> v.i # 0
      [] v.tag = "str"  -> v.s # ""
      [] OTHER          -> TRUE

\* str(v), as an f-string interpolates it
Format(v) ==
    CASE v.tag = "none" -> "None"
      [] v.tag = "int"  -> ToString(v.i)
      [] v.tag = "inf"  -> "inf"
      [] OTHER          -> v.s

\* a == b on Python values
PyEq(a, b) == a = b

(***************************************************************************)
(* Destination records of the API response.                                *)
(***************************************************************************)
NoFlight ==
    [present |-> FALSE, price |-> Missing, airline_name |-> Missing,
     stops |-> Missing, flight_duration |-> Missing, airport_code |-> Missing]

\* dest.get("flight", {})
GetFlight(d) == IF d.flight.present THEN d.flight ELSE NoFlight

(***************************************************************************)
(* sort_by_cheapest                                                        *)
(***************************************************************************)
get_price_missing_first(d) ==
    LET price == DictGet(GetFlight(d).price, PyNone)
    IN  IF price.tag = "none" THEN PyInt(0) ELSE price

get_price(d) ==
    LET price == DictGet(GetFlight(d).price, PyNone)
    IN  IF price.tag = "none" THEN PyInf ELSE price

\* a < b on the sort keys: ints and float("inf")
KeyLess(a, b) ==
    CASE a.tag = "inf" -> FALSE
      [] b.tag = "inf" -> TRUE
      [] OTHER         -> a.i < b.i

RECURSIVE InsertBeforeEqual(_, _)
InsertBeforeEqual(x, s) ==
    IF s = <<>> THEN <<x>>
    ELSE IF KeyLess(get_price(s[1]), get_price(x))
         THEN <<s[1]>> \o InsertBeforeEqual(x, Tail(s))
         ELSE <<x>> \o s

\* x placed into the key-ordered list s after every element whose key is not
\* greater than x's: what keeps sorted() stable
RECURSIVE Insert(_, _)
Insert(x, s) ==
    IF s = <<>> THEN <<x>>
    ELSE IF KeyLess(get_price(x), get_price(s[1]))
         THEN <<x>> \o s
         ELSE <<s[1]>> \o Insert(x, Tail(s))

\* sorted(s, key=get_price): a stable ascending sort
RECURSIVE Sorted(_)
Sorted(s) ==
    IF s = <<>> THEN <<>>
    ELSE Insert(s[Len(s)], Sorted(SubSeq(s, 1, Len(s) - 1)))

sort_priced_only(ds) ==
    Sorted(SelectSeq(ds, LAMBDA d : get_price(d).tag # "inf"))

sort_by_cheapest(ds) == Sorted(ds)

(***************************************************************************)
(* build_flight_link and format_destination                                *)
(***************************************************************************)
RECURSIVE Join(_, _)
Join(words, sep) ==
    IF words = <<>> THEN ""
    ELSE IF Len(words) = 1 THEN words[1]
    ELSE words[1] \o sep \o Join(Tail(words), sep)

\* urllib.parse.quote of the query: the words are unreserved characters, the
\* spaces between them become %20
Quote(words) == Join(words, "%20")

build_flight_link(departure_id, dest_airport, outbound_date, return_date, adults, currency) ==
    LET base_url == "https://www.google.com/travel/flights"
        query == <<"flights", "from", departure_id, "to", dest_airport, "on",
                   outbound_date, "returning", return_date>>
    IN  base_url \o "?q=" \o Quote(query) \o "&curr=" \o currency
                 \o "&px=" \o ToString(adults)

\* The fields the returned text interpolates, line by line.
format_destination(d, r, currency, departure_id, adults) ==
    LET name         == DictGet(d.name, PyStr("Unknown"))
        country      == DictGet(d.country, PyStr("Unknown"))
        flight       == GetFlight(d)
        price        == DictGet(flight.price, PyStr("N/A"))
        airline      == DictGet(flight.airline_name, PyStr("Unknown"))
        stops        == DictGet(flight.stops, PyStr("N/A"))
        duration     == DictGet(flight.flight_duration, PyStr("N/A"))
        airport_code == DictGet(flight.airport_code, PyStr(""))
        outbound     == DictGet(d.outbound_date, PyStr("N/A"))
        return_date  == DictGet(d.return_date, PyStr("N/A"))
        avg_cost_night == DictGet(d.avg_cost_per_night, PyNone)
        cost_str     == IF Truthy(avg_cost_night)
                        THEN Format(avg_cost_night) \o " " \o currency \o "/night"
                        ELSE "N/A"
        stop_text    == IF PyEq(stops, PyInt(0)) THEN "direct"
                        ELSE Format(stops) \o " stop(s)"
        flight_link  == IF /\ Truthy(airport_code)
                           /\ ~PyEq(outbound, PyStr("N/A"))
                           /\ ~PyEq(return_date, PyStr("N/A"))
                        THEN build_flight_link(departure_id, Format(airport_code),
                                 Format(outbound), Format(return_date),
                                 adults, currency)
                        ELSE ""
    IN  [rank        |-> r,
         title       |-> Format(name) \o ", " \o Format(country),
         flight      |-> Format(price) \o " " \o currency \o " (" \o Format(airline)
                           \o ", " \o stop_text \o ", " \o Format(duration) \o ")",
         dates       |-> Format(outbound) \o " -> " \o Format(return_date),
         cost_str    |-> cost_str,
         flight_link |-> flight_link]

NoBlock ==
    [rank |-> 0, title |-> "", flight |-> "", dates |-> "", cost_str |-> "",
     flight_link |-> ""]

NoDest ==
    [name |-> Missing, country |-> Missing, flight |-> NoFlight,
     outbound_date |-> Missing, return_date |-> Missing,
     avg_cost_per_night |-> Missing]

(***************************************************************************)
(* Input domains.                                                          *)
(***************************************************************************)
Prices == {PyInt(n) : n \in 0..MaxPrice}
Costs  == {PyInt(n) : n \in 0..MaxCost}
Names  == {PyStr("Oslo"), PyStr("Rome")}
Dates  == {Missing, PyNone, PyStr("2025-03-01")}

\* records that differ in what the ranking reads: name and price
RankFlights ==
    {NoFlight} \cup
    [present : {TRUE}, price : {Missing, PyNone} \cup Prices,
     airline_name : {PyStr("SAS")}, stops : {PyInt(0)},
     flight_duration : {PyStr("2h")}, airport_code : {PyStr("OSL")}]

RankDests ==
    [name : Names, country : {PyStr("NO")}, flight : RankFlights,
     outbound_date : {PyStr("2025-03-01")}, return_date : {PyStr("2025-03-08")},
     avg_cost_per_night : {PyInt(1)}]

\* records that differ in what the formatting reads
FormatFlights ==
    {NoFlight} \cup
    [present : {TRUE}, price : {Missing, PyNone, PyInt(MaxPrice)},
     airline_name : {PyStr("SAS")}, stops : {Missing, PyInt(0), PyInt(2)},
     flight_duration : {PyStr("2h")},
     airport_code : {Missing, PyNone, PyStr(""), PyStr("OSL")}]

FormatDests ==
    [name : {Missing, PyStr("Oslo")}, country : {PyStr("NO")},
     flight : FormatFlights, outbound_date : Dates, return_date : Dates,
     avg_cost_per_night : {Missing, PyNone} \cup Costs]

\* a JSON object's "destinations" entry: not in the object, null, or a list
JsonMissing     == [tag |-> "missing", items |-> <<>>]
JsonNull        == [tag |-> "none", items |-> <<>>]
JsonList(items) == [tag |-> "list", items |-> items]

NoResponse == [valid |-> FALSE, destinations |-> JsonMissing]

SeqsUpTo(S, n) == UNION {[1..k -> S] : k \in 0..n}

\* the state of main() before it starts; the function runs leave it alone
Idle ==
    /\ api_key = PyNone
    /\ limit = 0
    /\ requests = 0
    /\ transport = "none"
    /\ status = 0
    /\ response = NoResponse
    /\ exc = ""
    /\ display_destinations = <<>>
    /\ stdout = <<>>
    /\ stderr = <<>>
    /\ exit_status = -1

(***************************************************************************)
(* SpecRank: sort_by_cheapest on every list of up to MaxDests records.     *)
(***************************************************************************)
InitRank ==
    /\ Idle
    /\ pc = "rank_input"
    /\ destinations \in SeqsUpTo(RankDests, MaxDests)
    /\ sorted_destinations = <<>>
    /\ resorted = <<>>
    /\ rank = 0
    /\ dest = NoDest
    /\ block = NoBlock

Rank ==
    /\ pc = "rank_input"
    /\ sorted_destinations' = sort_by_cheapest(destinations)
    /\ pc' = "ranked"
    /\ UNCHANGED <<api_key, limit, requests, transport, status, response, exc,
                   destinations, resorted, display_destinations, rank, dest,
                   block, stdout, stderr, exit_status>>

RankAgain ==
    /\ pc = "ranked"
    /\ resorted' = sort_by_cheapest(sorted_destinations)
    /\ pc' = "reranked"
    /\ UNCHANGED <<api_key, limit, requests, transport, status, response, exc,
                   destinations, sorted_destinations, display_destinations,
                   rank, dest, block, stdout, stderr, exit_status>>

NextRank == Rank \/ RankAgain

SpecRank == InitRank /\ [][NextRank]_vars

(***************************************************************************)
(* SpecFormat: format_destination on every record of FormatDests.          *)
(***************************************************************************)
InitFormat ==
    /\ Idle
    /\ pc = "format_input"
    /\ destinations = <<>>
    /\ sorted_destinations = <<>>
    /\ resorted = <<>>
    /\ rank \in 1..MaxDests
    /\ dest \in FormatDests
    /\ block = NoBlock

FormatOne ==
    /\ pc = "format_input"
    /\ block' = format_destination(dest, rank, "CHF", "ZRH", 1)
    /\ pc' = "formatted"
    /\ UNCHANGED <<api_key, limit, requests, transport, status, response, exc,
                   destinations, sorted_destinations, resorted,
                   display_destinations, rank, dest, stdout, stderr,
                   exit_status>>

NextFormat == FormatOne

SpecFormat == InitFormat /\ [][NextFormat]_vars

(***************************************************************************)
(* Spec: one run of main().                                                *)
(***************************************************************************)
\* the records a response carries: one name, every shape of price
MainDests == {d \in RankDests : d.name = PyStr("Oslo")}

\* a body that is not JSON, or a JSON object with or without destinations
Bodies ==
    {NoResponse} \cup
    [valid : {TRUE},
     destinations : {JsonMissing, JsonNull}
                        \cup {JsonList(l) : l \in SeqsUpTo(MainDests, MaxDests)}]

Statuses == {200, 300, 401, 429, 500}

Limits == (0 - MaxLimit)..MaxLimit

Line(kind) == [kind |-> kind, found |-> 0, showing |-> 0, block |-> NoBlock]

\* the classes an exception is an instance of
Bases(e) ==
    CASE e = "ValueError"      -> {"ValueError"}
      [] e = "HTTPError"       -> {"HTTPError", "RequestException"}
      [] e = "ConnectionError" -> {"ConnectionError", "RequestException"}
      [] e = "JSONDecodeError" -> {"JSONDecodeError", "RequestException",
                                   "ValueError"}
      [] OTHER                 -> {}

\* the except clause of main that takes the exception: the first that matches
Handler(e) ==
    CASE "ValueError" \in Bases(e)       -> "ValueError"
      [] "HTTPError" \in Bases(e)        -> "HTTPError"
      [] "RequestException" \in Bases(e) -> "RequestException"
      [] OTHER                           -> "uncaught"

HasCredentialNotNone(key) == key # PyNone

\* not (not api_key)
HasCredential(key) == Truthy(key)

StatusRaisesServerOnly(code) == 500 <= code /\ code < 600

\* response.raise_for_status() raises HTTPError for 4xx and 5xx
StatusRaises(code) == 400 <= code /\ code < 600

NoDestinationsNoneOnly(entry) == entry.tag = "none"

\* not destinations, for destinations = response.get("destinations", [])
NoDestinations(entry) ==
    LET got == DictGet(entry, JsonList(<<>>))
    IN  got.tag = "none" \/ got.items = <<>>

\* s[:n]
SliceTo(s, n) ==
    IF n >= 0
    THEN SubSeq(s, 1, IF n < Len(s) THEN n ELSE Len(s))
    ELSE SubSeq(s, 1, IF Len(s) + n > 0 THEN Len(s) + n ELSE 0)

Init ==
    /\ pc = "start"
    /\ api_key \in {PyNone, PyStr(""), PyStr("key")}
    /\ limit \in Limits
    /\ requests = 0
    /\ transport = "none"
    /\ status = 0
    /\ response = NoResponse
    /\ exc = ""
    /\ destinations = <<>>
    /\ sorted_destinations = <<>>
    /\ resorted = <<>>
    /\ display_destinations = <<>>
    /\ rank = 0
    /\ dest = NoDest
    /\ block = NoBlock
    /\ stdout = <<>>
    /\ stderr = <<>>
    /\ exit_status = -1

\* main: parse_args() and the banner
ParseArgs ==
    /\ pc = "start"
    /\ stdout' = Append(stdout, Line("banner"))
    /\ pc' = "get_travel_destinations"
    /\ UNCHANGED <<api_key, limit, requests, transport, status, response, exc,
                   destinations, sorted_destinations, resorted,
                   display_destinations, rank, dest, block, stderr,
                   exit_status>>

\* get_travel_destinations: the credential check
CheckApiKey ==
    /\ pc = "get_travel_destinations"
    /\ IF HasCredential(api_key)
       THEN pc' = "requests_get" /\ exc' = exc
       ELSE pc' = "except" /\ exc' = "ValueError"
    /\ UNCHANGED <<api_key, limit, requests, transport, status, response,
                   destinations, sorted_destinations, resorted,
                   display_destinations, rank, dest, block, stdout, stderr,
                   exit_status>>

\* get_travel_destinations: requests.get, which raises on a transport failure
\* and returns a response of any status otherwise
RequestsGet ==
    /\ pc = "requests_get"
    /\ requests' = requests + 1
    /\ \/ /\ transport' = "failed"
          /\ exc' = "ConnectionError"
          /\ pc' = "except"
          /\ status' = status
       \/ /\ transport' = "ok"
          /\ status' \in Statuses
          /\ pc' = "raise_for_status"
          /\ exc' = exc
    /\ UNCHANGED <<api_key, limit, response, destinations, sorted_destinations,
                   resorted, display_destinations, rank, dest, block, stdout,
                   stderr, exit_status>>

\* get_travel_destinations: response.raise_for_status()
RaiseForStatus ==
    /\ pc = "raise_for_status"
    /\ IF StatusRaises(status)
       THEN pc' = "except" /\ exc' = "HTTPError"
       ELSE pc' = "response_json" /\ exc' = exc
    /\ UNCHANGED <<api_key, limit, requests, transport, status, response,
                   destinations, sorted_destinations, resorted,
                   display_destinations, rank, dest, block, stdout, stderr,
                   exit_status>>

\* get_travel_destinations: return response.json(), which raises
\* JSONDecodeError when the body is not JSON
ResponseJson ==
    /\ pc = "response_json"
    /\ \E body \in Bodies :
           IF body.valid
           THEN response' = body /\ pc' = "extract" /\ exc' = exc
           ELSE response' = response /\ pc' = "except"
                /\ exc' = "JSONDecodeError"
    /\ UNCHANGED <<api_key, limit, requests, transport, status, destinations,
                   sorted_destinations, resorted, display_destinations, rank,
                   dest, block, stdout, stderr, exit_status>>

\* main: destinations = response.get("destinations", []) and the empty case,
\* whose sys.exit(0) raises SystemExit, which no except clause of main takes
ExtractDestinations ==
    /\ pc = "extract"
    /\ destinations' = DictGet(response.destinations, JsonList(<<>>)).items
    /\ IF NoDestinations(response.destinations)
       THEN /\ stdout' = Append(stdout, Line("no_destinations"))
            /\ exit_status' = 0
            /\ pc' = "done"
       ELSE /\ pc' = "sort"
            /\ UNCHANGED <<stdout, exit_status>>
    /\ UNCHANGED <<api_key, limit, requests, transport, status, response, exc,
                   sorted_destinations, resorted, display_destinations, rank,
                   dest, block, stderr>>

\* main: sort_by_cheapest, the slice to args.limit, the summary and the rule
SortAndLimit ==
    /\ pc = "sort"
    /\ sorted_destinations' = sort_by_cheapest(destinations)
    /\ display_destinations' = SliceTo(sorted_destinations', limit)
    /\ stdout' = stdout \o
           << [Line("summary") EXCEPT !.found = Len(destinations),
                                      !.showing = Len(display_destinations')],
              Line("rule") >>
    /\ rank' = 1
    /\ pc' = "print_loop"
    /\ UNCHANGED <<api_key, limit, requests, transport, status, response, exc,
                   destinations, resorted, dest, block, stderr, exit_status>>

\* main: one turn of the loop over enumerate(display_destinations, 1)
PrintDestination ==
    /\ pc = "print_loop"
    /\ rank <= Len(display_destinations)
    /\ stdout' = Append(stdout,
           [Line("block") EXCEPT !.block =
                format_destination(display_destinations[rank], rank,
                                   "CHF", "ZRH", 1)])
    /\ rank' = rank + 1
    /\ UNCHANGED <<pc, api_key, limit, requests, transport, status, response,
                   exc, destinations, sorted_destinations, resorted,
                   display_destinations, dest, block, stderr, exit_status>>

\* main: after the loop, the rule and the tip; main returns
PrintFooter ==
    /\ pc = "print_loop"
    /\ rank > Len(display_destinations)
    /\ stdout' = stdout \o <<Line("rule"), Line("tip")>>
    /\ exit_status' = 0
    /\ pc' = "done"
    /\ UNCHANGED <<api_key, limit, requests, transport, status, response, exc,
                   destinations, sorted_destinations, resorted,
                   display_destinations, rank, dest, block, stderr>>

\* main: except ValueError
ExceptValueError ==
    /\ pc = "except"
    /\ Handler(exc) = "ValueError"
    /\ stderr' = Append(stderr, "Configuration error")
    /\ exit_status' = 1
    /\ pc' = "done"
    /\ UNCHANGED <<api_key, limit, requests, transport, status, response, exc,
                   destinations, sorted_destinations, resorted,
                   display_destinations, rank, dest, block, stdout>>

\* main: except requests.exceptions.HTTPError
ExceptHTTPError ==
    /\ pc = "except"
    /\ Handler(exc) = "HTTPError"
    /\ stderr' = stderr \o <<"API error">> \o
           (IF status = 401 THEN <<"Check your SEARCHAPI_API_KEY is valid">>
            ELSE IF status = 429 THEN <<"Rate limit exceeded">>
            ELSE <<>>)
    /\ exit_status' = 1
    /\ pc' = "done"
    /\ UNCHANGED <<api_key, limit, requests, transport, status, response, exc,
                   destinations, sorted_destinations, resorted,
                   display_destinations, rank, dest, block, stdout>>

\* main: except requests.exceptions.RequestException
ExceptRequestException ==
    /\ pc = "except"
    /\ Handler(exc) = "RequestException"
    /\ stderr' = Append(stderr, "Network error")
    /\ exit_status' = 1
    /\ pc' = "done"
    /\ UNCHANGED <<api_key, limit, requests, transport, status, response, exc,
                   destinations, sorted_destinations, resorted,
                   display_destinations, rank, dest, block, stdout>>

Next ==
    \/ ParseArgs
    \/ CheckApiKey
    \/ RequestsGet
    \/ RaiseForStatus
    \/ ResponseJson
    \/ ExtractDestinations
    \/ SortAndLimit
    \/ PrintDestination
    \/ PrintFooter
    \/ ExceptValueError
    \/ ExceptHTTPError
    \/ ExceptRequestException

Spec == Init /\ [][Next]_vars

(***************************************************************************)
(* Properties of sort_by_cheapest (SpecRank).                              *)
(***************************************************************************)
HasPrice(d) == d.flight.present /\ d.flight.price.tag = "int"
PriceOf(d)  == d.flight.price.i
SamePrice(a, b) ==
    \/ HasPrice(a) /\ HasPrice(b) /\ PriceOf(a) = PriceOf(b)
    \/ ~HasPrice(a) /\ ~HasPrice(b)
Count(r, s) == Cardinality({k \in 1..Len(s) : s[k] = r})
Ranked == pc \in {"ranked", "reranked"}

\* C1: along the output of sort_by_cheapest the prices of the priced records
\* are non-decreasing, and no record lacking a price (price absent, price
\* null, or no flight info) comes before a priced record.
C1_PricedAscendingUnpricedLast ==
    Ranked =>
        \A i, j \in 1..Len(sorted_destinations) :
            i < j =>
                LET a == sorted_destinations[i]
                    b == sorted_destinations[j]
                IN  /\ HasPrice(a) /\ HasPrice(b) => PriceOf(a) <= PriceOf(b)
                    /\ HasPrice(b) => HasPrice(a)

\* a ranked input that starts with a record without flight info, followed by
\* two priced records in descending order
C1_Witness ==
    /\ pc = "ranked"
    /\ Len(destinations) = 3
    /\ ~destinations[1].flight.present
    /\ HasPrice(destinations[2]) /\ HasPrice(destinations[3])
    /\ PriceOf(destinations[2]) > PriceOf(destinations[3])
    /\ sorted_destinations # destinations

\* C2: the output of sort_by_cheapest has the input's length and holds every
\* record exactly as often as the input does.
C2_Permutation ==
    Ranked =>
        /\ Len(sorted_destinations) = Len(destinations)
        /\ \A k \in 1..Len(destinations) :
               Count(destinations[k], sorted_destinations)
                   = Count(destinations[k], destinations)

\* a ranked input holding the same unpriced record twice around a priced one
C2_Witness ==
    /\ pc = "ranked"
    /\ Len(destinations) = 3
    /\ destinations[1] = destinations[3]
    /\ ~HasPrice(destinations[1])
    /\ HasPrice(destinations[2])
    /\ sorted_destinations # destinations

\* C3: records of equal price, and records that all lack a price, keep their
\* input order in the output; sorting the output again returns it unchanged.
C3_StableIdempotent ==
    /\ Ranked =>
           \A k \in 1..Len(destinations) :
               SelectSeq(sorted_destinations,
                         LAMBDA d : SamePrice(d, destinations[k]))
                   = SelectSeq(destinations,
                               LAMBDA d : SamePrice(d, destinations[k]))
    /\ pc = "reranked" => resorted = sorted_destinations

\* a list sorted twice in which two different records share a price and the
\* sort moved something
C3_Witness ==
    /\ pc = "reranked"
    /\ sorted_destinations # destinations
    /\ \E i, j \in 1..Len(destinations) :
           /\ i < j
           /\ destinations[i] # destinations[j]
           /\ HasPrice(destinations[i])
           /\ SamePrice(destinations[i], destinations[j])

(***************************************************************************)
(* Properties of format_destination (SpecFormat).                          *)
(***************************************************************************)
\* the field holds a value: the key is in the record, not null, not empty
Present(e) == e.tag \notin {"missing", "none"} /\ e # PyStr("")

\* C8: format_destination builds a booking link exactly when the airport
\* code, the outbound date and the return date are all present; with any of
\* them absent or null the link field is empty.
C8_LinkIffAllPresent ==
    pc = "formatted" =>
        (block.flight_link # ""
            <=> /\ Present(GetFlight(dest).airport_code)
                /\ Present(dest.outbound_date)
                /\ Present(dest.return_date))

\* C9: format_destination shows the nightly cost for every number in the
\* field, 0 included, and "N/A" only when the field is absent or null.
C9_CostShownWhenPresent ==
    pc = "formatted" =>
        IF dest.avg_cost_per_night.tag = "int"
        THEN block.cost_str
                 = ToString(dest.avg_cost_per_night.i) \o " CHF/night"
        ELSE block.cost_str = "N/A"

(***************************************************************************)
(* Properties of main (Spec).                                              *)
(***************************************************************************)
Blocks == SelectSeq(stdout, LAMBDA l : l.kind = "block")
Printed(kind) == \E k \in 1..Len(stdout) : stdout[k].kind = kind
Reported(msg) == \E k \in 1..Len(stderr) : stderr[k] = msg
Done == pc = "done"
NoKey == api_key = PyNone \/ api_key = PyStr("")
EmptyList(entry) ==
    entry.tag \in {"missing", "none"} \/ entry.items = <<>>

\* C4: with SEARCHAPI_API_KEY absent or empty no HTTP request is issued and
\* no destination block is printed; the run goes on until it ends, and it
\* ends with the configuration-error diagnostic and exit status 1.
C4_NoKeyFailsBeforeRequest ==
    NoKey =>
        /\ requests = 0
        /\ Blocks = <<>>
        /\ ~Done => ENABLED Next
        /\ Done => /\ exit_status = 1
                   /\ stderr = <<"Configuration error">>

\* a finished run whose credential is the empty string
C4_Witness ==
    /\ Done
    /\ api_key = PyStr("")
    /\ requests = 0
    /\ exit_status = 1
    /\ Reported("Configuration error")

\* C5: the configuration-error diagnostic is never printed once the HTTP
\* request has been issued; a failure after the request is reported as API
\* error or Network error.
C5_ConfigErrorOnlyBeforeRequest ==
    /\ Reported("Configuration error") => requests = 0
    /\ Done /\ requests > 0 /\ exit_status = 1 =>
           Reported("API error") \/ Reported("Network error")

\* the request failed, as the claim words it: a transport failure or any
\* status that is not a 2xx success
FailedNonSuccess ==
    \/ transport = "failed"
    \/ transport = "ok" /\ ~(200 <= status /\ status < 300)

\* the request failed with a client or server error status, or in transport
FailedErrorStatus ==
    \/ transport = "failed"
    \/ transport = "ok" /\ 400 <= status /\ status < 600

Aborted ==
    /\ sorted_destinations = <<>>
    /\ display_destinations = <<>>
    /\ Blocks = <<>>
    /\ ~Printed("summary")
    /\ ~Done => ENABLED Next
    /\ Done => exit_status = 1

C7_EmptyResultExitsZero ==
    response.valid /\ EmptyList(response.destinations) =>
        /\ pc \in {"extract", "done"}
        /\ Blocks = <<>>
        /\ stderr = <<>>
        /\ ~Done => ENABLED Next
        /\ Done => /\ exit_status = 0
                   /\ stdout = <<Line("banner"), Line("no_destinations")>>

\* a finished run whose response carried an empty destinations list
C7_Witness ==
    /\ Done
    /\ response.valid
    /\ response.destinations = JsonList(<<>>)
    /\ Printed("no_destinations")
    /\ exit_status = 0

MinInt(a, b) == IF a < b THEN a ELSE b
MaxInt(a, b) == IF a > b THEN a ELSE b

\* C10: a successful run with n > 0 destinations and display limit L prints
\* exactly the first min(max(L, 0), n) records of the ranked list, in ranked
\* order, numbered from 1.
C10_PrintsFirstLimitRanked ==
    Done /\ exit_status = 0 /\ Len(destinations) > 0 =>
        LET ranked == sort_by_cheapest(destinations)
            shown  == MinInt(MaxInt(limit, 0), Len(destinations))
        IN  Blocks = [k \in 1..shown |->
                        [Line("block") EXCEPT !.block =
                            format_destination(ranked[k], k, "CHF", "ZRH", 1)]]

====
